---- MODULE Spec2Model ----
(***************************************************************************)
(* Model of the LiveCoach component (src/unnamed/part_003): the live       *)
(* coaching session pipeline of the Fitness_Smarty frontend.               *)
(*                                                                         *)
(* Every event-loop task of the component is one action: a click handler,  *)
(* a callback of the streaming channel, a timer callback, the settlement   *)
(* of getUserMedia.  The continuations of already resolved promises        *)
(* (microtasks) run inside the task that queued them.                      *)
(***************************************************************************)
EXTENDS Integers, Sequences, FiniteSets, TLC

\* ------------------------------------------------------------------ bounds
MaxSessions == 2     \* sessions started in one run of Spec
RaceSessions == 3    \* sessions started in one run of SpecRace
MaxStreams == 2      \* getUserMedia requests granted in one run
MaxPending == 2      \* getUserMedia requests in flight at once
MaxMessages == 1     \* server messages delivered in one run of Spec
MaxAudio == 3        \* audio segments scheduled in one run of SpecAudio
MaxInterrupts == 1   \* interruptions in one run of SpecAudio
MaxClock == 3        \* playback-clock units that pass in one context
MaxToolCalls == 2    \* tool calls received in one run of SpecHud
MaxTicks == 8        \* sweep periods that pass in one run of SpecHud
MaxQueue == 2        \* setHighlights updaters waiting for one render
MaxCalls == 3        \* execute calls of the useAPI hook in one run
SamplePoints == 16   \* grid points per unit of amplitude in SpecCodec
EdgeWidth == 3       \* finest-grid samples taken next to -1, 0 and 1

Max(a, b) == IF a >= b THEN a ELSE b

Sessions == 1..Max(MaxSessions, RaceSessions)
NoSession == 0
NoStream == 0

\* ------------------------------------------------------- program constants
EXPIRY_MS == 7000    \* staleness window of a highlight
SWEEP_MS == 1000     \* cadence of the auto-expire interval
PCM_SCALE == 32768   \* float <-> int16 scale of the audio codec

ANATOMY_MAP == {"spine", "knees", "shoulders", "head", "core"}
ToolName == "updateAnatomyHighlight"
AckResult == "HUD LAYER UPDATED & PERSISTED"

VARIABLES
  \* React state of the component
  isActive, loading, hasCamera, permissionDenied, transcription, highlights,
  \* refs
  streamRef, videoSrc, sessionPromiseRef, frameIntervalRef,
  inputAudioContextRef, outputAudioContextRef, nextStartTimeRef,
  audioSourcesRef, scriptProcessorRef,
  \* browser: media devices
  gumPending, liveStreams, streamCount,
  \* browser / SDK: streaming channels, timers, audio graph
  chan, wantClose, sessionCount, liveIntervals, procCtx, disconnected,
  closedCtx, encoding, clock, now, playing, sourceCount,
  \* what the component did to its collaborators (observation only)
  lastSend, toolLog, acks, persisted, scheduled, interrupts, lastDecode,
  \* the component's life, the last direct call of one of its operations,
  \* and the sample the audio codec is working on
  mounted, lastCall, codec,
  \* the session state at the last firing of the auto-expire interval, the
  \* persistence backend, React's queue of setHighlights updaters (where
  \* renders are deferred), and the state of one useAPI hook
  lastSweep, backend, updateQueue, hook

uiVars == <<isActive, loading, hasCamera, permissionDenied, transcription>>
camVars == <<streamRef, videoSrc, gumPending, liveStreams, streamCount>>
sessVars == <<sessionPromiseRef, frameIntervalRef, inputAudioContextRef,
              outputAudioContextRef, scriptProcessorRef, chan, wantClose,
              sessionCount, liveIntervals, procCtx, disconnected, closedCtx>>
audioVars == <<nextStartTimeRef, audioSourcesRef, clock, playing, sourceCount,
               scheduled, interrupts>>
hudVars == <<highlights, now, toolLog, acks, persisted>>
obsVars == <<encoding, lastSend, lastDecode>>
envVars == <<lastSweep, backend, updateQueue, hook>>
apiVars == <<mounted, lastCall, codec, envVars>>

vars == <<uiVars, camVars, sessVars, audioVars, hudVars, obsVars, apiVars>>

NoSend == [kind |-> "none", chan |-> "none"]
NoCall == [op |-> "none", held |-> FALSE, raised |-> FALSE]
IdleCodec == [stage |-> "idle", x |-> 0, payload |-> <<>>, y |-> 0]
\* useState initial value of useAPI (useAPI.ts lines 24-28); no call made.
\* data and error are 0 for null, i for the result (the message) of the
\* i-th execute call; calls holds the state of every execute call made.
IdleHook == [data |-> 0, loading |-> FALSE, error |-> 0,
             calls |-> <<>>, op |-> "none"]
EmptyMap == [p \in {} |-> 0]

\* -------------------------------------------------------------------- Init
\* useState / useRef initial values (lines 150-169); nothing requested yet.
InitComponent ==
  /\ isActive = FALSE /\ loading = FALSE /\ hasCamera = FALSE
  /\ permissionDenied = FALSE /\ transcription = "ready"
  /\ highlights = EmptyMap
  /\ streamRef = NoStream /\ videoSrc = NoStream
  /\ sessionPromiseRef = NoSession /\ frameIntervalRef = NoSession
  /\ inputAudioContextRef = NoSession /\ outputAudioContextRef = NoSession
  /\ nextStartTimeRef = 0 /\ audioSourcesRef = {} /\ scriptProcessorRef = NoSession
  /\ gumPending = 0 /\ liveStreams = {} /\ streamCount = 0
  /\ chan = [s \in Sessions |-> "none"] /\ wantClose = {} /\ sessionCount = 0
  /\ liveIntervals = {} /\ procCtx = [s \in Sessions |-> NoSession]
  /\ disconnected = {} /\ closedCtx = {}
  /\ encoding = {}
  /\ clock = 0 /\ now = 0 /\ playing = {} /\ sourceCount = 0
  /\ lastSend = NoSend /\ toolLog = <<>> /\ acks = <<>> /\ persisted = <<>>
  /\ scheduled = <<>> /\ interrupts = 0 /\ lastDecode = "none"
  /\ mounted = TRUE /\ lastCall = NoCall
  /\ lastSweep = "none" /\ backend = "up" /\ updateQueue = <<>>
  /\ hook = IdleHook

Init == InitComponent /\ codec = IdleCodec

\* The <video> and <canvas> elements are rendered only in the last branch of
\* the ternary at lines 425-474, so videoRef.current / canvasRef.current are
\* non-null exactly then, while the component is mounted.
VideoMounted(cam, denied) == mounted /\ cam /\ ~denied

\* ------------------------------------------------------ Media Capture Adapter
\* Mutant of stopCamera: the flag is flipped instead of cleared.
stopCameraFlip ==
  /\ liveStreams' = IF streamRef # NoStream THEN liveStreams \ {streamRef}
                    ELSE liveStreams
  /\ streamRef' = NoStream
  /\ videoSrc' = NoStream
  /\ hasCamera' = ~hasCamera

\* stopCamera (lines 207-214).
stopCamera ==
  /\ liveStreams' = IF streamRef # NoStream THEN liveStreams \ {streamRef}
                    ELSE liveStreams
  /\ streamRef' = NoStream
  /\ videoSrc' = NoStream
  /\ hasCamera' = FALSE

\* toggleCamera up to its await (lines 190-196): the camera button is always
\* enabled; hasCamera is the value of the last render.
ToggleCamera ==
  /\ mounted
  /\ permissionDenied' = FALSE
  /\ IF hasCamera
       THEN /\ stopCamera
            /\ UNCHANGED gumPending
       ELSE /\ gumPending' = gumPending + 1
            /\ UNCHANGED <<liveStreams, streamRef, videoSrc, hasCamera>>
  /\ UNCHANGED <<isActive, loading, transcription, streamCount>>
  /\ UNCHANGED <<sessVars, audioVars, hudVars, obsVars, apiVars>>

\* toggleCamera after getUserMedia resolved (lines 197-199).  A <video> that
\* is not mounted yet gets no srcObject.
GetUserMediaResolved ==
  /\ gumPending > 0
  /\ gumPending' = gumPending - 1
  /\ streamCount' = streamCount + 1
  /\ liveStreams' = liveStreams \cup {streamCount + 1}
  /\ streamRef' = streamCount + 1
  /\ videoSrc' = IF VideoMounted(hasCamera, permissionDenied)
                 THEN streamCount + 1 ELSE videoSrc
  /\ hasCamera' = TRUE
  /\ UNCHANGED <<isActive, loading, permissionDenied, transcription>>
  /\ UNCHANGED <<sessVars, audioVars, hudVars, obsVars, apiVars>>

\* toggleCamera after getUserMedia rejected (lines 200-203).  The <video> is
\* unmounted by the permission panel; a remounted element has no srcObject.
GetUserMediaRejected ==
  /\ gumPending > 0
  /\ gumPending' = gumPending - 1
  /\ permissionDenied' = TRUE
  /\ videoSrc' = NoStream
  /\ UNCHANGED <<isActive, loading, hasCamera, transcription>>
  /\ UNCHANGED <<streamRef, liveStreams, streamCount>>
  /\ UNCHANGED <<sessVars, audioVars, hudVars, obsVars, apiVars>>

\* ------------------------------------------------------- Session Orchestrator
\* The session button (lines 508-510) is disabled without camera, while
\* loading and on permission denial.
ButtonEnabled == hasCamera /\ ~loading /\ ~permissionDenied

\* session.close() of the SDK on channel state st: an open (or errored)
\* channel starts closing; the close notification comes later.
CloseChannel(st) == IF st \in {"open", "errored"} THEN "closing" ELSE st

\* sessionPromiseRef.current?.then(s => s.close()) (line 379) on channel map
\* ch: a resolved promise runs the callback now, a pending one keeps it.
RequestClose(ch, ref) ==
  IF ref = NoSession THEN ch ELSE [ch EXCEPT ![ref] = CloseChannel(ch[ref])]

\* Mutant of MediaAfterStop: stopSession also runs stopCamera.
MediaReleasedByStop ==
  /\ stopCamera
  /\ UNCHANGED <<permissionDenied, gumPending, streamCount>>

\* What stopSession (lines 369-384) does to the camera: no statement of it
\* touches streamRef, the tracks, the <video> or hasCamera.
MediaAfterStop == UNCHANGED <<hasCamera, permissionDenied, camVars>>

\* stopSession (lines 369-384), entered with channel map ch.
stopSession(ch) ==
  /\ isActive' = FALSE
  /\ loading' = FALSE
  /\ transcription' = "terminated"
  /\ liveIntervals' = liveIntervals \ {frameIntervalRef}
  /\ disconnected' = disconnected \cup ({scriptProcessorRef} \ {NoSession})
  /\ closedCtx' = closedCtx \cup
                  ({inputAudioContextRef, outputAudioContextRef} \ {NoSession})
  /\ chan' = RequestClose(ch, sessionPromiseRef)
  /\ wantClose' = IF sessionPromiseRef # NoSession
                     /\ ch[sessionPromiseRef] = "connecting"
                  THEN wantClose \cup {sessionPromiseRef} ELSE wantClose
  /\ sessionPromiseRef' = NoSession
  /\ playing' = playing \ audioSourcesRef
  /\ audioSourcesRef' = {}
  /\ highlights' = EmptyMap
  /\ MediaAfterStop
  /\ UNCHANGED <<frameIntervalRef, inputAudioContextRef, outputAudioContextRef,
                 scriptProcessorRef, sessionCount, procCtx>>
  /\ UNCHANGED <<nextStartTimeRef, clock, sourceCount, scheduled, interrupts>>
  /\ UNCHANGED <<now, toolLog, acks, persisted, obsVars>>

\* Mutant of startSession: the hasCamera guard of line 217 is missing.
startSessionUnguarded ==
  LET s == sessionCount + 1 IN
    /\ loading' = TRUE
    /\ isActive' = TRUE
    /\ transcription' = "synchronizing"
    /\ inputAudioContextRef' = s
    /\ outputAudioContextRef' = s
    /\ clock' = 0
    /\ sessionCount' = s
    /\ chan' = [chan EXCEPT ![s] = "connecting"]
    /\ sessionPromiseRef' = s
    /\ UNCHANGED <<hasCamera, permissionDenied, camVars>>
    /\ UNCHANGED <<frameIntervalRef, scriptProcessorRef, wantClose,
                   liveIntervals, procCtx, disconnected, closedCtx>>
    /\ UNCHANGED <<nextStartTimeRef, audioSourcesRef, playing, sourceCount,
                   scheduled, interrupts>>
    /\ UNCHANGED <<hudVars, obsVars>>

\* startSession (lines 216-367): two fresh audio contexts and one
\* ai.live.connect per call; the new output context's clock starts at 0.
startSession ==
  IF ~hasCamera
    THEN UNCHANGED <<uiVars, camVars, sessVars, audioVars, hudVars, obsVars>>
    ELSE LET s == sessionCount + 1 IN
      /\ loading' = TRUE
      /\ isActive' = TRUE
      /\ transcription' = "synchronizing"
      /\ inputAudioContextRef' = s
      /\ outputAudioContextRef' = s
      /\ clock' = 0
      /\ sessionCount' = s
      /\ chan' = [chan EXCEPT ![s] = "connecting"]
      /\ sessionPromiseRef' = s
      /\ UNCHANGED <<hasCamera, permissionDenied, camVars>>
      /\ UNCHANGED <<frameIntervalRef, scriptProcessorRef, wantClose,
                     liveIntervals, procCtx, disconnected, closedCtx>>
      /\ UNCHANGED <<nextStartTimeRef, audioSourcesRef, playing, sourceCount,
                     scheduled, interrupts>>
      /\ UNCHANGED <<hudVars, obsVars>>

\* onClick={isActive ? stopSession : startSession} (line 509).
ClickStart ==
  mounted /\ ButtonEnabled /\ ~isActive /\ startSession /\ UNCHANGED apiVars
ClickStop ==
  mounted /\ ButtonEnabled /\ isActive /\ stopSession(chan) /\ UNCHANGED apiVars

\* ------------------------------------------------- channel callbacks (SDK)
\* onopen (lines 230-273), then the resolution of sessionPromise, which runs
\* a close() queued by an earlier stopSession.  createMediaStreamSource on a
\* closed context may throw (threw), which ends the handler at line 235.
onopen(s, threw) ==
  /\ chan[s] = "connecting"
  /\ threw => (streamRef # NoStream /\ inputAudioContextRef \in closedCtx)
  /\ loading' = FALSE
  /\ transcription' = "secured"
  /\ IF streamRef # NoStream /\ ~threw
       THEN /\ procCtx' = [procCtx EXCEPT ![s] = inputAudioContextRef]
            /\ scriptProcessorRef' = s
       ELSE UNCHANGED <<procCtx, scriptProcessorRef>>
  /\ IF VideoMounted(hasCamera, permissionDenied) /\ ~threw
       THEN /\ frameIntervalRef' = s
            /\ liveIntervals' = liveIntervals \cup {s}
       ELSE UNCHANGED <<frameIntervalRef, liveIntervals>>
  /\ chan' = [chan EXCEPT ![s] = IF s \in wantClose THEN "closing" ELSE "open"]
  /\ wantClose' = wantClose \ {s}
  /\ UNCHANGED <<isActive, hasCamera, permissionDenied, camVars>>
  /\ UNCHANGED <<sessionPromiseRef, inputAudioContextRef, outputAudioContextRef,
                 sessionCount, closedCtx, disconnected>>
  /\ UNCHANGED <<audioVars, hudVars, obsVars, apiVars>>

\* onerror (lines 334-337): the transport failed; the channel is not Open
\* any more and a close notification may or may not follow.
onerror(s) ==
  /\ chan[s] \in {"connecting", "open"}
  /\ transcription' = "link failure"
  /\ chan' = [chan EXCEPT ![s] = "errored"]
  /\ UNCHANGED <<isActive, loading, hasCamera, permissionDenied, camVars>>
  /\ UNCHANGED <<sessionPromiseRef, frameIntervalRef, inputAudioContextRef,
                 outputAudioContextRef, scriptProcessorRef, wantClose,
                 sessionCount, liveIntervals, procCtx, disconnected, closedCtx>>
  /\ UNCHANGED <<audioVars, hudVars, obsVars, apiVars>>

\* Mutant of AfterClose: the SDK reconnects a channel that closed.
AfterReconnect(ch, s) == [ch EXCEPT ![s] = "connecting"]

\* The channel map once channel s has closed: onclose is the SDK's last
\* callback for a channel.
AfterClose(ch, s) == [ch EXCEPT ![s] = "closed"]

\* onclose (line 338): the remote side closed, the connect failed, or a
\* close() requested earlier completed.
onclose(s) ==
  /\ chan[s] \in {"connecting", "open", "errored", "closing"}
  /\ stopSession(AfterClose(chan, s))
  /\ UNCHANGED apiVars

\* ---------------------------------------------------------------- producers
\* session.sendRealtimeInput behind sessionPromise.then (lines 241-243 and
\* 261-265): called whatever the state of the channel.
sendRealtimeInput(s, kind) ==
  lastSend' = [kind |-> kind, chan |-> chan[s]]

\* A ScriptProcessorNode fires while it is connected and its context runs.
ProcessorLive(s) ==
  procCtx[s] # NoSession /\ s \notin disconnected /\ procCtx[s] \notin closedCtx

\* onaudioprocess (lines 238-244) of the processor made by session s.
onaudioprocess(s) ==
  /\ ProcessorLive(s)
  /\ sendRealtimeInput(s, "audio")
  /\ UNCHANGED <<uiVars, camVars, sessVars, audioVars, hudVars, apiVars>>
  /\ UNCHANGED <<encoding, lastDecode>>

\* The frame interval of session s fires (lines 251-271): a frame is drawn
\* and its JPEG encoding starts when the <video> has data (readyState >= 2).
\* encoding holds the sessions with at least one frame being encoded.
FrameTick(s) ==
  /\ s \in liveIntervals
  /\ VideoMounted(hasCamera, permissionDenied)
  /\ videoSrc # NoStream /\ videoSrc \in liveStreams
  /\ encoding' = encoding \cup {s}
  /\ UNCHANGED <<uiVars, camVars, sessVars, audioVars, hudVars, apiVars>>
  /\ UNCHANGED <<lastSend, lastDecode>>

\* toBlob and the FileReader finished for one frame (lines 256-268): the
\* frame is sent, unless toBlob produced no blob; more tells whether other
\* frames of the session are still being encoded.
FrameEncoded(s, blob, more) ==
  /\ s \in encoding
  /\ encoding' = IF more THEN encoding ELSE encoding \ {s}
  /\ IF blob THEN sendRealtimeInput(s, "video") ELSE UNCHANGED lastSend
  /\ UNCHANGED <<uiVars, camVars, sessVars, audioVars, hudVars, apiVars>>
  /\ UNCHANGED lastDecode

\* ------------------------------------------------------ HUD Annotation Store
\* Mutant of Upsert: the previous map is not spread into the new one.
UpsertAlone(h, args, t) ==
  [k \in {args.part} |->
     [status |-> args.status, feedback |-> args.feedback, lastUpdated |-> t]]

\* The updater of setHighlights at lines 300-307, run at time t.
Upsert(h, args, t) ==
  [k \in DOMAIN h \cup {args.part} |->
     IF k = args.part
       THEN [status |-> args.status, feedback |-> args.feedback, lastUpdated |-> t]
       ELSE h[k]]

\* Line 298: the only tool the handler serves.
Handled(fc) == fc.name = ToolName

\* Mutant of ShouldPersist: every status is persisted.
PersistAlways(args) == TRUE

\* Line 310: what is persisted to the backend.
ShouldPersist(args) == args.status # "optimal"

\* Mutant of Expired: the boundary age expires too.
ExpiredAtBoundary(t, lastUpdated) == t - lastUpdated >= EXPIRY_MS

\* Line 179: the staleness test of the auto-expire interval.
Expired(t, lastUpdated) == t - lastUpdated > EXPIRY_MS

\* The updater of the auto-expire interval (lines 175-185) at time t.
SweepMap(h, t) ==
  [k \in {p \in DOMAIN h : ~Expired(t, h[p].lastUpdated)} |-> h[k]]

\* The for loop over functionCalls (lines 297-325), as folds over the calls.
RECURSIVE HighlightsAfter(_, _, _)
HighlightsAfter(h, calls, t) ==
  IF calls = <<>> THEN h
  ELSE HighlightsAfter(IF Handled(Head(calls)) THEN Upsert(h, Head(calls).args, t)
                       ELSE h,
                       Tail(calls), t)

\* logBiomechanicalFault calls (lines 310-319) made for the calls.
RECURSIVE PersistedFor(_)
PersistedFor(calls) ==
  IF calls = <<>> THEN <<>>
  ELSE (IF Handled(Head(calls)) /\ ShouldPersist(Head(calls).args)
          THEN <<Head(calls).args>> ELSE <<>>)
       \o PersistedFor(Tail(calls))

\* Mutant of AcksFor: one response per message, for its first call.
AcksForFirst(s, calls) ==
  IF calls # <<>> /\ Handled(Head(calls))
    THEN <<[sess |-> s, id |-> Head(calls).id, name |-> Head(calls).name,
            result |-> AckResult]>>
    ELSE <<>>

\* Mutant of PersistAborts: the handler awaits the persistence call, whose
\* failure ends it.
PersistAwaited(down) == down

\* Lines 312-318: logBiomechanicalFault(...) is called without await and
\* only .finally is chained: whether the backend is down or not, the
\* handler goes on.
PersistAborts(down) == FALSE

\* The calls of a message whose loop iteration (lines 297-325) runs to its
\* end, with the backend down or not.
RECURSIVE CompletedCalls(_, _)
CompletedCalls(calls, down) ==
  IF calls = <<>> THEN <<>>
  ELSE IF Handled(Head(calls)) /\ ShouldPersist(Head(calls).args)
          /\ PersistAborts(down)
         THEN <<>>
         ELSE <<Head(calls)>> \o CompletedCalls(Tail(calls), down)

\* The calls of a message whose loop iteration is entered.
StartedCalls(calls, down) ==
  LET n == Len(CompletedCalls(calls, down)) IN
    SubSeq(calls, 1, IF n < Len(calls) THEN n + 1 ELSE n)

\* sendToolResponse calls (lines 321-323) made on channel s for the calls.
RECURSIVE AcksFor(_, _)
AcksFor(s, calls) ==
  IF calls = <<>> THEN <<>>
  ELSE (IF Handled(Head(calls))
          THEN <<[sess |-> s, id |-> Head(calls).id, name |-> Head(calls).name,
                  result |-> AckResult]>>
          ELSE <<>>)
       \o AcksFor(s, Tail(calls))

\* --------------------------------------------------------- Audio Codec Bridge
\* Mutant of DecodeThrows: any byte length is accepted.
DecodeAccepts(nbytes) == FALSE

\* new Int16Array(data.buffer) (line 136) throws a RangeError on a byte
\* length that is not a multiple of 2.
DecodeThrows(nbytes) == nbytes % 2 # 0

\* frameCount of decodeAudioData (line 137) with numChannels = 1; the buffer's
\* duration in playback-clock units of one frame.
FrameCount(nbytes) == nbytes \div 2

\* Mutant of ScheduleAt: the cursor is ignored.
ScheduleAtClock(cursor, t) == t

\* Line 288: where the next segment starts.
ScheduleAt(cursor, t) == Max(cursor, t)

\* Mutant of CursorAfterInterrupt: the cursor is kept.
CursorKept(cursor) == cursor

\* Line 331: the cursor after an interruption.
CursorAfterInterrupt(cursor) == 0

\* ------------------------------------------------------------- onmessage
\* onmessage (lines 274-333) for message m on channel s:
\*   m.audio        byte length of modelTurn.parts[0].inlineData (0: none)
\*   m.calls        toolCall.functionCalls
\*   m.interrupted  serverContent.interrupted
\* The await at line 278 resumes in the same task.  A RangeError of the
\* decoder rejects the handler's promise: nothing after line 278 runs.
onmessage(s, m) ==
  /\ chan[s] \in {"open", "closing"}
  /\ LET hasAudio == m.audio > 0 /\ outputAudioContextRef # NoSession
         threw == hasAudio /\ DecodeThrows(m.audio)
         sched == hasAudio /\ ~threw
         start == ScheduleAt(nextStartTimeRef, clock)
         src == [id |-> sourceCount + 1, start |-> start,
                 dur |-> FrameCount(m.audio)]
         cursor1 == IF sched THEN start + src.dur ELSE nextStartTimeRef
         sources1 == IF sched THEN audioSourcesRef \cup {src} ELSE audioSourcesRef
         playing1 == IF sched /\ outputAudioContextRef \notin closedCtx
                       THEN playing \cup {src} ELSE playing
         calls == IF threw THEN <<>> ELSE m.calls
         started == StartedCalls(calls, backend = "down")
         completed == CompletedCalls(calls, backend = "down")
         intr == m.interrupted /\ ~threw /\ Len(completed) = Len(calls)
     IN
       /\ sourceCount' = IF sched THEN sourceCount + 1 ELSE sourceCount
       /\ scheduled' = IF sched
                         THEN Append(scheduled,
                                [cursor |-> nextStartTimeRef,
                                 clock |-> clock, start |-> start,
                                 dur |-> src.dur, epoch |-> interrupts,
                                 ctx |-> outputAudioContextRef])
                         ELSE scheduled
       /\ highlights' = HighlightsAfter(highlights, started, now)
       /\ persisted' = persisted \o PersistedFor(started)
       /\ acks' = acks \o AcksFor(s, completed)
       /\ toolLog' = toolLog \o [i \in 1..Len(m.calls) |->
                                   [id |-> m.calls[i].id, name |-> m.calls[i].name,
                                    args |-> m.calls[i].args, at |-> now,
                                    reached |-> ~threw,
                                    failed |-> backend = "down"]]
       /\ nextStartTimeRef' = IF intr THEN CursorAfterInterrupt(cursor1) ELSE cursor1
       /\ audioSourcesRef' = IF intr THEN {} ELSE sources1
       /\ playing' = IF intr THEN playing1 \ sources1 ELSE playing1
       /\ interrupts' = IF intr THEN interrupts + 1 ELSE interrupts
       /\ lastDecode' = IF threw THEN "RangeError"
                         ELSE IF sched THEN "decoded" ELSE lastDecode
  /\ UNCHANGED <<uiVars, camVars, sessVars, clock, now, encoding, lastSend>>
  /\ UNCHANGED apiVars

\* ------------------------------------------------------ timers and clocks
\* Mutant of Sweep: the effect has no cleanup, the interval outlives the
\* component.
SweepUncleared ==
  /\ highlights' = SweepMap(highlights, now)
  /\ lastSweep' = IF isActive THEN "active" ELSE "idle"
  /\ UNCHANGED <<uiVars, camVars, sessVars, audioVars, obsVars>>
  /\ UNCHANGED <<mounted, lastCall, codec, backend, updateQueue, hook>>
  /\ UNCHANGED <<now, toolLog, acks, persisted>>

\* The auto-expire interval of the mount effect (lines 172-188) fires; the
\* effect's cleanup clears it at unmount.  The effect has no dependency:
\* the interval is set at mount, whatever the session does.
Sweep ==
  /\ mounted
  /\ highlights' = SweepMap(highlights, now)
  /\ lastSweep' = IF isActive THEN "active" ELSE "idle"
  /\ UNCHANGED <<uiVars, camVars, sessVars, audioVars, obsVars>>
  /\ UNCHANGED <<mounted, lastCall, codec, backend, updateQueue, hook>>
  /\ UNCHANGED <<now, toolLog, acks, persisted>>

\* Date.now() advances by d.
Tick(d) ==
  /\ now' = now + d
  /\ UNCHANGED <<uiVars, camVars, sessVars, audioVars, obsVars, apiVars>>
  /\ UNCHANGED <<highlights, toolLog, acks, persisted>>

\* currentTime of the running output context advances by one unit.
ClockTick ==
  /\ outputAudioContextRef # NoSession
  /\ outputAudioContextRef \notin closedCtx
  /\ clock' = clock + 1
  /\ UNCHANGED <<uiVars, camVars, sessVars, hudVars, obsVars, apiVars>>
  /\ UNCHANGED <<nextStartTimeRef, audioSourcesRef, playing, sourceCount,
                 scheduled, interrupts>>

\* source.onended (line 292) of a segment that played to its end.
onended(src) ==
  /\ src \in playing
  /\ clock >= src.start + src.dur
  /\ playing' = playing \ {src}
  /\ audioSourcesRef' = audioSourcesRef \ {src}
  /\ UNCHANGED <<uiVars, camVars, sessVars, hudVars, obsVars, apiVars>>
  /\ UNCHANGED <<nextStartTimeRef, clock, sourceCount, scheduled, interrupts>>

\* ------------------------------------------- direct calls and teardown
\* stopCamera called on its own (release() of the Media Capture Adapter),
\* whatever the state of the camera.
Release ==
  /\ mounted
  /\ stopCamera
  /\ lastCall' = [op |-> "release", held |-> streamRef # NoStream, raised |-> FALSE]
  /\ UNCHANGED <<isActive, loading, permissionDenied, transcription>>
  /\ UNCHANGED <<gumPending, streamCount, mounted, codec, envVars>>
  /\ UNCHANGED <<sessVars, audioVars, hudVars, obsVars>>

\* startSession called on its own (start() of the Session Orchestrator),
\* whatever the state of the session button.  Both of its paths return
\* normally: the promise of the async function is never rejected.
Start ==
  /\ mounted
  /\ startSession
  /\ lastCall' = [op |-> "start", held |-> hasCamera, raised |-> FALSE]
  /\ UNCHANGED <<mounted, codec, envVars>>

\* The component is unmounted: the only cleanup is the one of the
\* auto-expire effect (line 187), which clears that interval.
Unmount ==
  /\ mounted
  /\ mounted' = FALSE
  /\ UNCHANGED <<uiVars, camVars, sessVars, audioVars, hudVars, obsVars>>
  /\ UNCHANGED <<lastCall, codec, envVars>>

\* The persistence backend (fetch in logBiomechanicalFault,
\* TECHNICAL_DETAILS.md lines 370-384) starts or stops failing.
BackendChanges ==
  /\ backend' = IF backend = "up" THEN "down" ELSE "up"
  /\ UNCHANGED <<uiVars, camVars, sessVars, audioVars, hudVars, obsVars>>
  /\ UNCHANGED <<mounted, lastCall, codec, lastSweep, updateQueue, hook>>

\* ------------------------------------------ deferred renders (React)
\* setHighlights(updater) queues the updater; React runs the queued
\* updaters in order at the next render.  Sweep and onmessage above are
\* the case of a render right after the handler; here other handlers may
\* run in between.
NoArgs == [part |-> "none", status |-> "none", feedback |-> "none"]

\* Mutant of ApplyUpdater: the sweep filters the store it saw when the
\* interval fired and sets that, instead of filtering prev.
ApplyUpdaterStale(h, u, t) ==
  IF u.op = "upsert" THEN Upsert(h, u.args, t) ELSE SweepMap(u.snap, u.t)

\* One queued updater run at time t on store h: the upsert of lines 300-307
\* (Date.now() is read inside the updater) or the sweep of lines 175-185
\* (now was read when the interval fired).
ApplyUpdater(h, u, t) ==
  IF u.op = "upsert" THEN Upsert(h, u.args, t) ELSE SweepMap(h, u.t)

RECURSIVE ApplyUpdaters(_, _, _)
ApplyUpdaters(h, q, t) ==
  IF q = <<>> THEN h ELSE ApplyUpdaters(ApplyUpdater(h, Head(q), t), Tail(q), t)

\* The updaters the loop of lines 297-307 queues for the calls.
RECURSIVE UpdatersFor(_)
UpdatersFor(calls) ==
  IF calls = <<>> THEN <<>>
  ELSE (IF Handled(Head(calls))
          THEN <<[op |-> "upsert", args |-> Head(calls).args, t |-> 0,
                  snap |-> EmptyMap]>>
          ELSE <<>>)
       \o UpdatersFor(Tail(calls))

\* onmessage (lines 296-326) for a tool-call message, the render deferred.
ToolCallQueued(s, m) ==
  /\ chan[s] \in {"open", "closing"}
  /\ m.audio = 0 /\ ~m.interrupted
  /\ updateQueue' = updateQueue \o UpdatersFor(m.calls)
  /\ persisted' = persisted \o PersistedFor(m.calls)
  /\ acks' = acks \o AcksFor(s, m.calls)
  /\ toolLog' = toolLog \o [i \in 1..Len(m.calls) |->
                              [id |-> m.calls[i].id, name |-> m.calls[i].name,
                               args |-> m.calls[i].args, at |-> now,
                               reached |-> TRUE, failed |-> backend = "down"]]
  /\ UNCHANGED <<uiVars, camVars, sessVars, audioVars, obsVars>>
  /\ UNCHANGED <<highlights, now>>
  /\ UNCHANGED <<mounted, lastCall, codec, lastSweep, backend, hook>>

\* The auto-expire interval fires (lines 173-185), the render deferred.
SweepQueued ==
  /\ mounted
  /\ updateQueue' = Append(updateQueue,
                           [op |-> "sweep", args |-> NoArgs, t |-> now,
                            snap |-> highlights])
  /\ lastSweep' = IF isActive THEN "active" ELSE "idle"
  /\ UNCHANGED <<uiVars, camVars, sessVars, audioVars, hudVars, obsVars>>
  /\ UNCHANGED <<mounted, lastCall, codec, backend, hook>>

\* React renders: the queued updaters run in order.
Render ==
  /\ updateQueue # <<>>
  /\ highlights' = ApplyUpdaters(highlights, updateQueue, now)
  /\ updateQueue' = <<>>
  /\ UNCHANGED <<uiVars, camVars, sessVars, audioVars, obsVars>>
  /\ UNCHANGED <<now, toolLog, acks, persisted>>
  /\ UNCHANGED <<mounted, lastCall, codec, lastSweep, backend, hook>>

\* ------------------------------------------------------ useAPI hook
\* execute up to its await (useAPI.ts lines 31-35): the state is set to
\* loading and apiFunction is called.
execute ==
  /\ hook' = [data |-> 0, loading |-> TRUE, error |-> 0,
              calls |-> Append(hook.calls, "pending"), op |-> "execute"]
  /\ UNCHANGED <<uiVars, camVars, sessVars, audioVars, hudVars, obsVars>>
  /\ UNCHANGED <<mounted, lastCall, codec, lastSweep, backend, updateQueue>>

\* execute after its await (lines 36-41): the i-th call's request resolved
\* (ok) or rejected, and the state is set from it.
executeSettled(i, ok) ==
  /\ i \in 1..Len(hook.calls) /\ hook.calls[i] = "pending"
  /\ hook' = [hook EXCEPT !.data = IF ok THEN i ELSE 0,
                          !.loading = FALSE,
                          !.error = IF ok THEN 0 ELSE i,
                          !.calls[i] = IF ok THEN "resolved" ELSE "rejected"]
  /\ UNCHANGED <<uiVars, camVars, sessVars, audioVars, hudVars, obsVars>>
  /\ UNCHANGED <<mounted, lastCall, codec, lastSweep, backend, updateQueue>>

\* reset (lines 47-49).
reset ==
  /\ hook' = [hook EXCEPT !.data = 0, !.loading = FALSE, !.error = 0,
                          !.op = "reset"]
  /\ UNCHANGED <<uiVars, camVars, sessVars, audioVars, hudVars, obsVars>>
  /\ UNCHANGED <<mounted, lastCall, codec, lastSweep, backend, updateQueue>>

\* ------------------------------------------------- codec, sample by sample
\* A sample x in [-1, 1] is the integer n with x = n / SampleDen; a decoded
\* sample y is the integer v with y = v / PCM_SCALE.  The grid of step
\* 1 / SampleDen has points between two Int16 steps, at thirds of a step:
\* far enough from an integer for float rounding not to change the truncation.
SampleDen == PCM_SCALE + PCM_SCALE \div 2

\* Number -> integer of the typed-array store (truncation towards zero).
TruncToZero(num, den) ==
  IF num >= 0 THEN num \div den ELSE -((-num) \div den)

\* Integer -> Int16 of the typed-array store at line 390: modulo 2^16.
ToInt16(v) == ((v + 32768) % 65536) - 32768

\* new Uint8Array(int16.buffer) (line 393) for one sample, little-endian.
Int16Bytes(v) == LET u == v % 65536 IN <<u % 256, u \div 256>>

\* encode (lines 121-128) of two bytes: btoa's three sextets and the pad.
encode(bytes) ==
  <<bytes[1] \div 4, (bytes[1] % 4) * 16 + bytes[2] \div 16, (bytes[2] % 16) * 4, 64>>

\* decode (lines 111-119) of one padded quadruple: atob's two bytes.
decode(base64) ==
  <<base64[1] * 4 + base64[2] \div 16, (base64[2] % 16) * 16 + base64[3] \div 4>>

\* createBlob (lines 386-396) for the one-sample buffer <<n / SampleDen>>.
createBlob(n) == encode(Int16Bytes(ToInt16(TruncToZero(n * PCM_SCALE, SampleDen))))

\* new Int16Array(data.buffer)[0] (line 136) of a two-byte buffer.
BytesInt16(bytes) ==
  LET u == bytes[1] + 256 * bytes[2] IN IF u >= 32768 THEN u - 65536 ELSE u

\* decodeAudioData (lines 130-147) of a two-byte buffer, one channel: the
\* numerator of channelData[0] over PCM_SCALE.
decodeAudioData(bytes) == BytesInt16(bytes)

CodecEncode ==
  /\ codec.stage = "raw"
  /\ codec' = [codec EXCEPT !.stage = "encoded", !.payload = createBlob(codec.x)]
  /\ UNCHANGED <<uiVars, camVars, sessVars, audioVars, hudVars, obsVars>>
  /\ UNCHANGED <<mounted, lastCall, envVars>>

CodecDecode ==
  /\ codec.stage = "encoded"
  /\ codec' = [codec EXCEPT !.stage = "decoded",
                            !.y = decodeAudioData(decode(codec.payload))]
  /\ UNCHANGED <<uiVars, camVars, sessVars, audioVars, hudVars, obsVars>>
  /\ UNCHANGED <<mounted, lastCall, envVars>>

\* ------------------------------------------------------------ server messages
Call(id, name, args) == [id |-> id, name |-> name, args |-> args]
AudioMsg(nbytes, intr) == [audio |-> nbytes, calls |-> <<>>, interrupted |-> intr]
ToolMsg(calls) == [audio |-> 0, calls |-> calls, interrupted |-> FALSE]

\* Tool-call ids are the remote side's; it numbers its calls.
NextId == Len(toolLog) + 1

\* Message parts the handler has acted on.
Delivered == sourceCount + Len(toolLog) + interrupts

\* What the remote side sends in Spec: one short clip, one tool call, an
\* interruption.
LiteMessages ==
  { AudioMsg(2, FALSE), AudioMsg(0, TRUE),
    ToolMsg(<<Call(NextId, ToolName,
                   [part |-> "knees", status |-> "critical", feedback |-> "f1"])>>) }

\* --------------------------------------------------------------- Spec
\* What the session life cycle does apart from starting sessions: the
\* channel callbacks, the stop button, the producers.
Lifecycle ==
  \/ ClickStop
  \/ \E s \in Sessions, threw \in BOOLEAN : onopen(s, threw)
  \/ \E s \in Sessions : onerror(s)
  \/ \E s \in Sessions : onclose(s)
  \/ \E s \in Sessions : onaudioprocess(s)
  \/ \E s \in Sessions : FrameTick(s)
  \/ \E s \in Sessions, blob \in BOOLEAN, more \in BOOLEAN : FrameEncoded(s, blob, more)

\* The camera is set up (with overlapping requests) before the first session.
CameraFirst ==
  \/ sessionCount = 0 /\ (hasCamera \/ gumPending < MaxPending) /\ ToggleCamera
  \/ sessionCount = 0 /\ streamCount < MaxStreams /\ GetUserMediaResolved
  \/ sessionCount = 0 /\ GetUserMediaRejected

\* The camera is acquired once, before the first session.
CameraOnce ==
  \/ sessionCount = 0 /\ ~hasCamera /\ gumPending = 0 /\ streamCount = 0 /\ ToggleCamera
  \/ sessionCount = 0 /\ GetUserMediaResolved

\* Spec: the session life cycle with a small alphabet of server messages and
\* no passage of time.
Next ==
  \/ CameraFirst
  \/ sessionCount < MaxSessions /\ ClickStart
  \/ Lifecycle
  \/ Delivered < MaxMessages /\ \E s \in Sessions, m \in LiteMessages : onmessage(s, m)

Spec == Init /\ [][Next]_vars

\* SpecRace: the same life cycle with one more session and no server message.
NextRace ==
  \/ CameraFirst
  \/ sessionCount < RaceSessions /\ ClickStart
  \/ Lifecycle

SpecRace == Init /\ [][NextRace]_vars

\* ---------------------------------------------------------- SpecAudio
\* One camera, one session, and a remote side that streams audio
\* clips of 1, 2 or 3 clock units, with or without an interruption, while the
\* playback clock runs.
AudioMessages ==
  {AudioMsg(n, intr) : n \in {0, 2, 4, 6}, intr \in BOOLEAN} \ {AudioMsg(0, FALSE)}

NextAudio ==
  \/ CameraOnce
  \/ sessionCount = 0 /\ ClickStart
  \/ ClickStop
  \/ \E s \in Sessions, threw \in BOOLEAN : onopen(s, threw)
  \/ \E s \in Sessions : onclose(s)
  \/ \E s \in Sessions, m \in AudioMessages :
       /\ m.audio > 0 => sourceCount < MaxAudio
       /\ m.interrupted => interrupts < MaxInterrupts
       /\ onmessage(s, m)
  \/ clock < MaxClock /\ ClockTick
  \/ \E src \in playing : onended(src)

SpecAudio == Init /\ [][NextAudio]_vars

\* ------------------------------------------------------------ SpecHud
\* One camera, one session, and a remote side that issues tool calls, one or
\* two to a message, while time passes and the auto-expire interval fires.
HudCalls ==
  { [name |-> ToolName, args |-> [part |-> "knees", status |-> "critical", feedback |-> "f1"]],
    [name |-> ToolName, args |-> [part |-> "knees", status |-> "optimal", feedback |-> "f2"]],
    [name |-> ToolName, args |-> [part |-> "spine", status |-> "warning", feedback |-> "f2"]],
    [name |-> ToolName, args |-> [part |-> "elbow", status |-> "warning", feedback |-> "f1"]],
    [name |-> "otherTool", args |-> [part |-> "knees", status |-> "critical", feedback |-> "f1"]] }

HudMessages ==
  {ToolMsg(<<Call(NextId, c.name, c.args)>>) : c \in HudCalls}
  \cup {ToolMsg(<<Call(NextId, c.name, c.args), Call(NextId + 1, d.name, d.args)>>) :
          c \in HudCalls, d \in HudCalls}

NextHud ==
  \/ CameraOnce
  \/ sessionCount = 0 /\ ClickStart
  \/ ClickStop
  \/ \E s \in Sessions, threw \in BOOLEAN : onopen(s, threw)
  \/ \E s \in Sessions : onclose(s)
  \/ \E s \in Sessions, m \in HudMessages :
       /\ Len(toolLog) + Len(m.calls) <= MaxToolCalls
       /\ onmessage(s, m)
  \/ now < MaxTicks * SWEEP_MS /\ Tick(SWEEP_MS)
  \/ Sweep

SpecHud == Init /\ [][NextHud]_vars

\* ------------------------------------------------------------ SpecApi
\* The camera button at any time, the operations of the component called
\* directly, one session, and the teardown of the component.
NextApi ==
  \/ (hasCamera \/ gumPending < MaxPending) /\ ToggleCamera
  \/ streamCount < MaxStreams /\ GetUserMediaResolved
  \/ GetUserMediaRejected
  \/ Release
  \/ sessionCount = 0 /\ Start
  \/ ClickStop
  \/ \E s \in Sessions, threw \in BOOLEAN : onopen(s, threw)
  \/ \E s \in Sessions : onerror(s)
  \/ \E s \in Sessions : onclose(s)
  \/ Unmount

SpecApi == Init /\ [][NextApi]_vars

\* ---------------------------------------------------------- SpecDecode
\* One camera, one session, and a remote side whose audio frames may have an
\* odd byte length, alone or in a message that also carries a tool call or
\* an interruption.
DecodeMessages ==
  {[audio |-> n, calls |-> c, interrupted |-> intr] :
     n \in 1..4, intr \in BOOLEAN,
     c \in {<<>>, <<Call(NextId, ToolName,
                         [part |-> "knees", status |-> "warning", feedback |-> "f1"])>>}}

NextDecode ==
  \/ CameraOnce
  \/ sessionCount = 0 /\ ClickStart
  \/ ClickStop
  \/ \E s \in Sessions, threw \in BOOLEAN : onopen(s, threw)
  \/ \E s \in Sessions : onclose(s)
  \/ \E s \in Sessions, m \in DecodeMessages :
       /\ sourceCount < MaxAudio
       /\ Len(toolLog) + Len(m.calls) <= MaxToolCalls
       /\ m.interrupted => interrupts < MaxInterrupts
       /\ onmessage(s, m)
  \/ clock < MaxClock /\ ClockTick

SpecDecode == Init /\ [][NextDecode]_vars

\* ----------------------------------------------------------- SpecCodec
\* One sample through createBlob and back through decodeAudioData, for a
\* grid of samples of [-1, 1] that is finest next to -1, 0 and 1.
Samples ==
  {n \in -SampleDen..SampleDen :
     \/ n % (SampleDen \div SamplePoints) = 0
     \/ SampleDen - n <= EdgeWidth
     \/ n + SampleDen <= EdgeWidth
     \/ (n <= EdgeWidth /\ -n <= EdgeWidth)}

InitCodec ==
  /\ InitComponent
  /\ codec \in {[stage |-> "raw", x |-> n, payload |-> <<>>, y |-> 0] : n \in Samples}

NextCodec == CodecEncode \/ CodecDecode

SpecCodec == InitCodec /\ [][NextCodec]_vars

\* ----------------------------------------------------------- SpecSweep
\* One camera, one session, the auto-expire interval, the passage of time
\* and the teardown of the component.
NextSweep ==
  \/ CameraOnce
  \/ sessionCount = 0 /\ ClickStart
  \/ ClickStop
  \/ \E s \in Sessions, threw \in BOOLEAN : onopen(s, threw)
  \/ \E s \in Sessions : onclose(s)
  \/ now < MaxTicks * SWEEP_MS /\ Tick(SWEEP_MS)
  \/ Sweep
  \/ Unmount

SpecSweep == Init /\ [][NextSweep]_vars

\* --------------------------------------------------------- SpecPersist
\* One camera, one session, tool calls, and a persistence backend that may
\* be failing when a call arrives.
NextPersist ==
  \/ CameraOnce
  \/ sessionCount = 0 /\ ClickStart
  \/ ClickStop
  \/ \E s \in Sessions, threw \in BOOLEAN : onopen(s, threw)
  \/ \E s \in Sessions : onclose(s)
  \/ \E s \in Sessions, m \in HudMessages :
       /\ Len(toolLog) + Len(m.calls) <= MaxToolCalls
       /\ onmessage(s, m)
  \/ BackendChanges

SpecPersist == Init /\ [][NextPersist]_vars

\* ----------------------------------------------------------- SpecQueue
\* One camera, one session, tool calls for one part and sweeps whose
\* updaters wait for a render while time passes.
QueueMessages ==
  {ToolMsg(<<Call(NextId, ToolName,
                  [part |-> "knees", status |-> st, feedback |-> "f1"])>>) :
     st \in {"optimal", "warning"}}

NextQueue ==
  \/ CameraOnce
  \/ sessionCount = 0 /\ ClickStart
  \/ \E s \in Sessions, threw \in BOOLEAN : onopen(s, threw)
  \/ \E s \in Sessions, m \in QueueMessages :
       /\ Len(toolLog) < MaxToolCalls
       /\ Len(updateQueue) < MaxQueue
       /\ ToolCallQueued(s, m)
  \/ Len(updateQueue) < MaxQueue /\ SweepQueued
  \/ Render
  \/ now < MaxTicks * SWEEP_MS /\ Tick(SWEEP_MS)

SpecQueue == Init /\ [][NextQueue]_vars

\* ---------------------------------------------------------- SpecCamera
\* The camera button and the session button at any time, one session.
NextCamera ==
  \/ (hasCamera \/ gumPending < MaxPending) /\ ToggleCamera
  \/ streamCount < MaxStreams /\ GetUserMediaResolved
  \/ GetUserMediaRejected
  \/ sessionCount = 0 /\ ClickStart
  \/ ClickStop
  \/ \E s \in Sessions, threw \in BOOLEAN : onopen(s, threw)
  \/ \E s \in Sessions : onclose(s)

SpecCamera == Init /\ [][NextCamera]_vars

\* ---------------------------------------------------------- SpecReplay
\* One camera, sessions one after the other, and a remote side that
\* streams audio to each while the playback clock of each runs.
ReplayMessages == {AudioMsg(2, FALSE), AudioMsg(4, FALSE), AudioMsg(0, TRUE)}

NextReplay ==
  \/ CameraOnce
  \/ sessionCount < MaxSessions /\ ClickStart
  \/ ClickStop
  \/ \E s \in Sessions, threw \in BOOLEAN : onopen(s, threw)
  \/ \E s \in Sessions : onclose(s)
  \/ \E s \in Sessions, m \in ReplayMessages :
       /\ m.audio > 0 => sourceCount < MaxAudio
       /\ m.interrupted => interrupts < MaxInterrupts
       /\ onmessage(s, m)
  \/ clock < MaxClock /\ ClockTick

SpecReplay == Init /\ [][NextReplay]_vars

\* ---------------------------------------------------------- SpecUseApi
\* One useAPI hook whose execute calls overlap and settle in any order.
NextUseApi ==
  \/ Len(hook.calls) < MaxCalls /\ execute
  \/ \E i \in 1..MaxCalls, ok \in BOOLEAN : executeSettled(i, ok)
  \/ reset

SpecUseApi == Init /\ [][NextUseApi]_vars

\* ======================================================== claims C1 .. C10
LiveChannels == {s \in Sessions : chan[s] \in {"connecting", "open"}}
LiveProducers == {s \in Sessions : s \in liveIntervals \/ ProcessorLive(s)}

\* C1: a transport error (onerror) on the channel of a connecting or active
\* session runs stop(): afterwards isActive and loading are false, both
\* producers of the session are cancelled, the channel is closing or closed
\* and the HUD store is empty.
C1_ErrorRunsStop ==
  [][\A s \in Sessions :
       (onerror(s) /\ isActive /\ sessionPromiseRef = s)
         => /\ ~isActive' /\ ~loading'
            /\ s \notin liveIntervals'
            /\ (procCtx'[s] # NoSession =>
                  (s \in disconnected' \/ procCtx'[s] \in closedCtx'))
            /\ chan'[s] \in {"closing", "closed"}
            /\ highlights' = EmptyMap]_vars

\* C2: at most one session is connecting or active at any time: never two
\* channels connecting or open, never the producers of two sessions running.
C2_OneSession ==
  /\ Cardinality(LiveChannels) <= 1
  /\ Cardinality(LiveProducers) <= 1

\* C9: once stop() has returned (the channel is closing or closed) no audio
\* chunk and no video frame is sent on the channel: a chunk still being
\* encoded then is dropped.
C9_NoSendAfterStop ==
  lastSend.kind # "none" => lastSend.chan \notin {"closing", "closed"}

\* A second stopSession would change nothing.
StopIsNoOp ==
  /\ ~isActive /\ ~loading /\ transcription = "terminated"
  /\ frameIntervalRef \notin liveIntervals
  /\ scriptProcessorRef # NoSession => scriptProcessorRef \in disconnected
  /\ ({inputAudioContextRef, outputAudioContextRef} \ {NoSession}) \subseteq closedCtx
  /\ sessionPromiseRef = NoSession
  /\ audioSourcesRef = {}
  /\ highlights = EmptyMap

\* What stop() is to leave behind: an idle session, no producer running, no
\* channel open (a channel still connecting has its close queued), an empty
\* store.
TornDown ==
  /\ ~isActive /\ ~loading
  /\ LiveProducers = {}
  /\ \A s \in Sessions : /\ chan[s] # "open"
                         /\ chan[s] = "connecting" => s \in wantClose
  /\ highlights = EmptyMap

StopStep == ClickStop \/ \E s \in Sessions : onclose(s)

\* C10: stop() is safe from every state and idempotent: it leaves the
\* session idle with the timers cancelled, the channel closed and the store
\* empty, and running it again changes nothing.
C10_StopSafeIdempotent == [][StopStep => (TornDown /\ StopIsNoOp)']_vars

\* ---------------------------------------------------------------- playback
Segs == 1..Len(scheduled)

\* C3: the audio segments of a session are scheduled in receipt order and
\* never overlap: each starts at max(Playback Cursor, playback clock), the
\* cursor then advances by its duration, so that (without an interruption in
\* between) segment k+1 starts no earlier than start(k) + duration(k).
C3_SequentialPlayback ==
  /\ \A k \in Segs :
       /\ scheduled[k].start >= scheduled[k].cursor
       /\ scheduled[k].start >= scheduled[k].clock
       /\ scheduled[k].start \in {scheduled[k].cursor, scheduled[k].clock}
  /\ \A k \in Segs \ {Len(scheduled)} :
       scheduled[k + 1].epoch = scheduled[k].epoch
         => /\ scheduled[k + 1].cursor = scheduled[k].start + scheduled[k].dur
            /\ scheduled[k + 1].start >= scheduled[k].start + scheduled[k].dur
  /\ scheduled # <<>> /\ scheduled[Len(scheduled)].epoch = interrupts
       => nextStartTimeRef = scheduled[Len(scheduled)].start
                             + scheduled[Len(scheduled)].dur

\* C3 witness: clips of 2, 1 and 3 units received from clock time T > 0 were
\* scheduled at T, T + 2 and T + 3.
C3_Witness ==
  /\ Len(scheduled) = 3
  /\ scheduled[1].dur = 2 /\ scheduled[2].dur = 1 /\ scheduled[3].dur = 3
  /\ scheduled[1].clock > 0
  /\ scheduled[1].start = scheduled[1].clock
  /\ scheduled[2].start = scheduled[1].start + 2
  /\ scheduled[3].start = scheduled[1].start + 3

\* No segment has been scheduled since the last interruption.
FreshlyInterrupted ==
  /\ interrupts > 0
  /\ scheduled # <<>> => scheduled[Len(scheduled)].epoch < interrupts

\* C4: an interruption stops every pending or playing audio source, empties
\* the set of tracked sources and sets the Playback Cursor to 0; the next
\* audio message is then scheduled at the current playback clock time.
C4_InterruptionCutsPlayback ==
  [][\A s \in Sessions, m \in AudioMessages :
       onmessage(s, m) =>
         /\ m.interrupted =>
              /\ audioSourcesRef' = {}
              /\ playing' = {}
              /\ nextStartTimeRef' = 0
         /\ (FreshlyInterrupted /\ m.audio > 0) =>
              /\ Len(scheduled') = Len(scheduled) + 1
              /\ scheduled'[Len(scheduled')].start = clock]_vars

\* C4 witness: a segment was scheduled at the clock time after an
\* interruption, earlier than the end of the segment cut before it.
C4_Witness ==
  \E k \in Segs \ {1} :
    /\ scheduled[k].epoch > scheduled[k - 1].epoch
    /\ scheduled[k].start = scheduled[k].clock
    /\ scheduled[k].start < scheduled[k - 1].start + scheduled[k - 1].dur

\* --------------------------------------------------------------- tool calls
Calls == 1..Len(toolLog)
AcksOf(id) == {j \in 1..Len(acks) : acks[j].id = id}

Upserts == {i \in Calls : toolLog[i].name = "updateAnatomyHighlight"}
PersistedAs(a) == {j \in 1..Len(persisted) : persisted[j] = a}

\* C6: every upsert with status warning or critical triggers the persistence
\* call exactly once, with the same part, status and feedback; an upsert
\* with status optimal triggers none.
C6_PersistNonOptimalOnce ==
  /\ \A i \in Upserts :
       LET a == toolLog[i].args IN
         Cardinality(PersistedAs(a)) =
           IF a.status \in {"warning", "critical"}
             THEN Cardinality({k \in Upserts : toolLog[k].args = a})
             ELSE 0
  /\ \A j \in 1..Len(persisted) : \E i \in Upserts : toolLog[i].args = persisted[j]

\* C6 witness: a critical and an optimal upsert were made, one was persisted.
C6_Witness ==
  /\ \E i \in Upserts : toolLog[i].args.status = "critical"
  /\ \E i \in Upserts : toolLog[i].args.status = "optimal"
  /\ Len(persisted) = 1 /\ persisted[1].status = "critical"

\* The last upsert made for part p.
LastUpsert(p) ==
  LET of == {i \in Upserts : toolLog[i].args.part = p} IN
    toolLog[CHOOSE i \in of : \A k \in of : k <= i]

PartsOf(calls) ==
  {calls[i].args.part : i \in {k \in 1..Len(calls) : calls[k].name = "updateAnatomyHighlight"}}

\* C7: the store holds one Annotation per part, carrying the status, the
\* feedback and the timestamp of the most recent upsert for that part; an
\* upsert adds exactly the parts it names and leaves the others unchanged.
C7_UpsertLatestPerPart ==
  /\ [](\A p \in DOMAIN highlights :
          /\ \E i \in Upserts : toolLog[i].args.part = p
          /\ highlights[p] = [status |-> LastUpsert(p).args.status,
                              feedback |-> LastUpsert(p).args.feedback,
                              lastUpdated |-> LastUpsert(p).at])
  /\ [][\A s \in Sessions, m \in HudMessages :
          onmessage(s, m) =>
            /\ DOMAIN highlights' = DOMAIN highlights \cup PartsOf(m.calls)
            /\ \A p \in DOMAIN highlights \ PartsOf(m.calls) :
                 highlights'[p] = highlights[p]]_vars

\* C7 witness: knees was upserted twice with different contents, then spine
\* could not be added within the bound; the store holds the second upsert.
C7_Witness ==
  /\ Len(toolLog) = 2 /\ Upserts = {1, 2}
  /\ toolLog[1].args.part = "knees" /\ toolLog[2].args.part = "knees"
  /\ toolLog[1].args # toolLog[2].args
  /\ toolLog[1].at < toolLog[2].at
  /\ "knees" \in DOMAIN highlights
  /\ highlights["knees"].lastUpdated = toolLog[2].at

\* C8: sweep(now) removes exactly the Annotations with
\* now - lastUpdated > 7000 and retains, unchanged, those with
\* now - lastUpdated <= 7000.
C8_SweepRemovesStale ==
  [][Sweep =>
       /\ DOMAIN highlights' \subseteq DOMAIN highlights
       /\ \A p \in DOMAIN highlights :
            IF now - highlights[p].lastUpdated > 7000
              THEN p \notin DOMAIN highlights'
              ELSE p \in DOMAIN highlights' /\ highlights'[p] = highlights[p]]_vars

\* C8 witness: in a running session the only Annotation, 8000 ms old, is gone
\* while one upserted 7000 ms ago is still there.
C8_Witness ==
  /\ isActive /\ transcription = "secured"
  /\ Len(toolLog) = 2 /\ Upserts = {1, 2}
  /\ toolLog[1].args.part = "knees" /\ toolLog[2].args.part = "spine"
  /\ now - toolLog[1].at = 8000 /\ now - toolLog[2].at = 7000
  /\ DOMAIN highlights = {"spine"}

\* ======================================================= claims C11 .. C20
\* C11: on a close notification the component runs stop() and the session
\* is Closed for good: a closed channel stays closed, nothing reconnects by
\* itself, and a channel only starts connecting through a click on start.
C11_CloseIsTerminal ==
  [][/\ \A s \in Sessions :
          onclose(s) => /\ ~isActive' /\ ~loading'
                        /\ chan'[s] = "closed"
                        /\ sessionPromiseRef' = NoSession
     /\ \A s \in Sessions : chan[s] = "closed" => chan'[s] = "closed"
     /\ (\E s \in Sessions : chan[s] # "connecting" /\ chan'[s] = "connecting")
          => ClickStart]_vars

\* C11 witness: the first session was closed and the user started a second.
C11_Witness ==
  /\ chan[1] = "closed" /\ chan[2] = "connecting"
  /\ isActive /\ sessionPromiseRef = 2

\* C12: after stop() no channel is open and no synthesized-audio source is
\* playing or pending: the set of tracked sources is empty, and stays so
\* until a new session starts.
C12_StopSilencesPlayback ==
  ~isActive => /\ audioSourcesRef = {}
               /\ playing = {}
               /\ \A s \in Sessions : chan[s] # "open"

\* C13: when a session ends, by explicit stop, remote close or transport
\* error, the HUD store is cleared.
C13_SessionEndClearsHud ==
  [][(StopStep \/ \E s \in Sessions :
                    onerror(s) /\ isActive /\ sessionPromiseRef = s)
       => highlights' = EmptyMap]_vars

\* C14: when the component is torn down, or the session errors, while a
\* session is active and the camera is acquired, all device tracks are
\* stopped and no stream handle stays held.
C14_ReleaseOnEveryExit ==
  [][((Unmount \/ \E s \in Sessions : onerror(s) /\ sessionPromiseRef = s)
        /\ isActive /\ streamRef # NoStream)
       => /\ liveStreams' = {}
          /\ streamRef' = NoStream]_vars

\* C15: stop() leaves the Media Capture Adapter untouched: the tracks, the
\* stream handle, the video sink and the camera-acquired flag are unchanged.
C15_StopKeepsCamera ==
  [][StopStep => UNCHANGED <<liveStreams, streamRef, videoSrc, hasCamera>>]_vars

\* C15 witness: a session was stopped with the camera acquired and shown, and
\* the stream is still live and attached.
C15_Witness ==
  /\ ~isActive /\ transcription = "terminated"
  /\ hasCamera /\ streamRef \in liveStreams /\ videoSrc = streamRef

\* C16: release() on an already released adapter is a no-op: no error, no
\* track stopped, no device acquired, the adapter stays released.
C16_ReleaseTwiceNoOp ==
  [][(Release /\ streamRef = NoStream /\ ~hasCamera)
       => /\ ~lastCall'.raised
          /\ UNCHANGED <<liveStreams, streamRef, videoSrc, hasCamera>>
          /\ UNCHANGED <<gumPending, streamCount>>]_vars

\* C16 witness: the camera was acquired and released, and release() was then
\* called again.
C16_Witness ==
  /\ lastCall.op = "release" /\ ~lastCall.held
  /\ streamCount = 1 /\ liveStreams = {} /\ gumPending = 0
  /\ streamRef = NoStream /\ ~hasCamera

\* C17: acquire is idempotent: the camera control used, or an acquisition
\* completing, while the camera is already acquired keeps the existing
\* handle: no track is stopped, no new device request is made or granted,
\* the acquired flag stays true.
C17_AcquireIdempotent ==
  [][((ToggleCamera \/ GetUserMediaResolved) /\ hasCamera /\ streamRef # NoStream)
       => /\ streamRef' = streamRef
          /\ liveStreams' = liveStreams
          /\ hasCamera'
          /\ gumPending' <= gumPending
          /\ streamCount' = streamCount]_vars

\* What start() may not touch when it refuses to start.
StartLeft == <<uiVars, camVars, sessVars, audioVars, hudVars, obsVars>>

C19_MalformedFrameDropped ==
  [][\A s \in Sessions, m \in DecodeMessages :
       (onmessage(s, m) /\ outputAudioContextRef # NoSession) =>
         /\ m.audio % 2 # 0 =>
              /\ lastDecode' = "RangeError"
              /\ UNCHANGED <<scheduled, sourceCount, audioSourcesRef, playing,
                             nextStartTimeRef>>
              /\ UNCHANGED <<isActive, loading, chan, sessionPromiseRef,
                             outputAudioContextRef, closedCtx>>
         /\ (m.audio % 2 = 0 /\ lastDecode = "RangeError") =>
              /\ lastDecode' = "decoded"
              /\ Len(scheduled') = Len(scheduled) + 1]_vars

\* C19 witness: in a running session a clip was scheduled, then a frame of 3
\* bytes was dropped: the cursor is still the end of the clip.
C19_Witness ==
  /\ lastDecode = "RangeError" /\ isActive /\ ~loading
  /\ Len(scheduled) = 1 /\ toolLog = <<>> /\ interrupts = 0
  /\ nextStartTimeRef = scheduled[1].start + scheduled[1].dur
  /\ nextStartTimeRef > 0

\* C20: a sample of [-1, 1] encoded by createBlob and decoded by
\* decodeAudioData is within one quantization step (1/32768) of the
\* original: |y - x| <= 1/32768, with x = codec.x / SampleDen and
\* y = codec.y / 32768 (both sides scaled by SampleDen * 2).
C20_RoundTripWithinOneStep ==
  codec.stage = "decoded" =>
    LET unit == 32768 \div 2
        d == codec.y * (SampleDen \div unit) - codec.x * (32768 \div unit)
    IN d <= SampleDen \div unit /\ -d <= SampleDen \div unit

\* ======================================================= claims C21 .. C30
\* C21 as claimed: the expiry sweep runs only during an active session: no
\* sweep fires while the session is idle (before the first start, after
\* stop).
C21_SweepOnlyWhileActive == lastSweep # "idle"

\* C21 as amended: the expiry sweep runs for the lifetime of the mounted
\* component: it fires whether the session is active or idle, and no sweep
\* fires once the component is unmounted.
C21_SweepWhileMounted == [][~mounted => lastSweep' = lastSweep]_vars

\* C21 witness: the interval fired with the session idle, after a session
\* was started and stopped.
C21_Witness ==
  /\ lastSweep = "idle" /\ mounted
  /\ sessionCount = 1 /\ ~isActive /\ transcription = "terminated"
  /\ now > 0

\* C22: a failure of the persistence call changes nothing for the store or
\* the caller: with the backend failing or not, every handled tool call is
\* upserted and acknowledged once, the session state is unchanged and the
\* handler does not end early.
C22_PersistFailureContained ==
  /\ [](\A i \in Calls :
          toolLog[i].name = "updateAnatomyHighlight"
            => Cardinality(AcksOf(toolLog[i].id)) = 1)
  /\ [][\A s \in Sessions, m \in HudMessages :
          onmessage(s, m) =>
            /\ highlights' = HighlightsAfter(highlights, m.calls, now)
            /\ Len(acks') = Len(acks) + Cardinality({i \in 1..Len(m.calls) :
                              m.calls[i].name = "updateAnatomyHighlight"})
            /\ UNCHANGED <<isActive, loading, chan, sessionPromiseRef>>
            /\ lastDecode' = lastDecode]_vars

\* C22 witness: a critical call arrived with the backend failing, was
\* upserted and acknowledged, and the session is still active.
C22_Witness ==
  /\ isActive /\ Len(toolLog) = 1
  /\ toolLog[1].failed /\ toolLog[1].args.status = "critical"
  /\ Cardinality(AcksOf(toolLog[1].id)) = 1
  /\ toolLog[1].args.part \in DOMAIN highlights
  /\ Len(persisted) = 1

\* C23: a sweep never deletes an entry that an upsert has refreshed: at
\* every render, whatever the order in which sweeps and upserts were queued,
\* an entry survives unless a queued sweep saw it older than 7000 ms, and
\* every part upserted in the batch is present, stamped with the time of
\* the render.
C23_SweepKeepsRefreshed ==
  [][Render =>
       /\ \A p \in DOMAIN highlights :
            (\A i \in 1..Len(updateQueue) :
               updateQueue[i].op = "sweep"
                 => updateQueue[i].t - highlights[p].lastUpdated <= 7000)
              => p \in DOMAIN highlights'
       /\ \A i \in 1..Len(updateQueue) :
            updateQueue[i].op = "upsert"
              => /\ updateQueue[i].args.part \in DOMAIN highlights'
                 /\ highlights'[updateQueue[i].args.part].lastUpdated = now]_vars

\* C23 witness: knees, upserted at time 0, was upserted again at 8000 ms,
\* when sweeps had fired: the refreshed entry is in the store.
C23_Witness ==
  /\ Len(toolLog) = 2 /\ toolLog[1].at = 0 /\ toolLog[2].at = 8000
  /\ now = 8000 /\ updateQueue = <<>> /\ lastSweep = "active"
  /\ "knees" \in DOMAIN highlights
  /\ highlights["knees"].lastUpdated = 8000

C25_StaleCloseIgnored ==
  [][\A s \in Sessions :
       (onclose(s) /\ isActive /\ sessionPromiseRef \notin {s, NoSession})
         => /\ isActive' /\ loading' = loading
            /\ sessionPromiseRef' = sessionPromiseRef
            /\ chan'[sessionPromiseRef] = chan[sessionPromiseRef]
            /\ wantClose' = wantClose
            /\ UNCHANGED <<liveIntervals, disconnected, closedCtx, highlights>>]_vars

\* C26: the Playback Cursor of a finished session never delays playback in
\* a later one: the first segment scheduled on a session's playback context
\* starts at the current time of that context's clock.
C26_CursorNotCarriedOver ==
  \A k \in Segs :
    (\A j \in 1..(k - 1) : scheduled[j].ctx # scheduled[k].ctx)
      => scheduled[k].start = scheduled[k].clock

\* C27: whenever a session is connecting or active, the camera is acquired:
\* hasCamera is true and the stream handle is set.
C27_ActiveHasCamera == isActive => (hasCamera /\ streamRef # NoStream)

\* C28: at most one acquired stream has live tracks, and it is the one
\* streamRef points to: no live stream is out of stopCamera's reach.
C28_OneLiveStream == liveStreams \subseteq {streamRef}

\* C29: whenever no session is active the HUD store is empty: a tool call
\* delivered after stopSession creates no Annotation.
C29_IdleStoreEmpty == ~isActive => highlights = EmptyMap

\* C30: when overlapping execute calls of the useAPI hook have all settled
\* (and reset was not used since), the state is the outcome of the call
\* invoked last, and loading is false.
C30_LastInvokedWins ==
  (/\ hook.op = "execute"
   /\ \A i \in 1..Len(hook.calls) : hook.calls[i] # "pending")
    => LET n == Len(hook.calls) IN
         /\ ~hook.loading
         /\ hook.calls[n] = "resolved" => (hook.data = n /\ hook.error = 0)
         /\ hook.calls[n] = "rejected" => (hook.data = 0 /\ hook.error = n)

====
